---------------------------- MODULE Spec2Model ----------------------------
(***************************************************************************)
(* Model of backend/main.py: the /generate_code endpoint of the Tkinter    *)
(* GUI builder.  One request is followed from the raw JSON body through     *)
(* the pydantic validation of Layout/Widget to the handler generate_code,  *)
(* which calls generate_tkinter_code and returns the script.               *)
(*                                                                         *)
(* Text is modelled at the level of characters and the script at the level *)
(* of tokens: a Python string is a sequence of one-character strings, an   *)
(* output line is the sequence of the pieces its f-string concatenates     *)
(* (fixed fragments, identifiers, decimal renderings of integers and the   *)
(* characters of a repr() literal), and the returned script is the         *)
(* "\n".join of the lines: one token sequence in which "\n" separates      *)
(* lines.  Properties are stated on the script split again at "\n", so a   *)
(* literal that carried a raw newline would show up as a broken line.      *)
(***************************************************************************)
EXTENDS Integers, Sequences, FiniteSets, TLC

VARIABLES request, pc, layout, response, entered

vars == <<request, pc, layout, response, entered>>

-----------------------------------------------------------------------------
(* Bounds of the model. *)

\* longest widget list of a request
MaxWidgets == 2
\* longest text value whose repr() is explored exhaustively
MaxLen == 3

-----------------------------------------------------------------------------
(* Optional values: Python's None and a present value. *)

None == <<>>
Some(v) == <<v>>

Range(s) == {s[i] : i \in 1..Len(s)}

RECURSIVE Flatten(_)
Flatten(ss) == IF ss = <<>> THEN <<>> ELSE Head(ss) \o Flatten(Tail(ss))

-----------------------------------------------------------------------------
(* Widget.validate_type and the validation of the request body. *)

supported == {"Button", "Label", "Entry", "Frame", "Menu"}

\* Faulty variant: the ValueError is built but not raised.
validate_type_not_raised(v) == None

\* The validator of Widget.type: the error it raises (None when it returns v).
validate_type(v) ==
    IF v \notin supported
      THEN Some(<<"Unsupported widget type: ", v>>)
      ELSE None

\* Parsing the body as Layout validates every widget; pydantic collects the
\* error of every failing widget, in list order, with its location.
RECURSIVE LayoutErrorsFrom(_, _)
LayoutErrorsFrom(widgets, i) ==
    IF i > Len(widgets) THEN <<>>
    ELSE LET e == validate_type(widgets[i].type)
         IN  (IF e = None THEN <<>> ELSE <<[loc |-> i, msg |-> e[1]]>>)
             \o LayoutErrorsFrom(widgets, i + 1)

LayoutErrors(widgets) == LayoutErrorsFrom(widgets, 1)

-----------------------------------------------------------------------------
(* repr() of a str, as used by {widget.text!r}. *)

\* The quote repr() chooses: double quotes only when the string holds a
\* single quote and no double quote.
ReprQuote(s) ==
    IF "'" \in Range(s) /\ "\"" \notin Range(s) THEN "\"" ELSE "'"

\* Faulty variant: the backslash is copied without being doubled.
ReprCharRawBackslash(c, q) ==
    IF c = q THEN <<"\\", c>>
    ELSE IF c = "\n" THEN <<"\\", "n">>
    ELSE <<c>>

\* One character of the literal's body.
ReprChar(c, q) ==
    IF c = q \/ c = "\\" THEN <<"\\", c>>
    ELSE IF c = "\n" THEN <<"\\", "n">>
    ELSE <<c>>

Repr(s) ==
    LET q == ReprQuote(s)
    IN  <<q>> \o Flatten([i \in 1..Len(s) |-> ReprChar(s[i], q)]) \o <<q>>

-----------------------------------------------------------------------------
(* generate_tkinter_code. *)

\* max(...) over a non-empty list of integers, scanning left to right.
RECURSIVE MaxFrom(_, _, _)
MaxFrom(vals, i, best) ==
    IF i > Len(vals) THEN best
    ELSE MaxFrom(vals, i + 1, IF vals[i] > best THEN vals[i] ELSE best)

PyMax(vals) == MaxFrom(vals, 2, vals[1])

\* Faulty variant: the maximum is started at 0 instead of at the first sum.
max_right_from_zero(widgets) ==
    IF widgets # <<>>
      THEN MaxFrom([i \in 1..Len(widgets) |-> widgets[i].x + widgets[i].width],
                   1, 0)
      ELSE 0

max_right(widgets) ==
    IF widgets # <<>>
      THEN PyMax([i \in 1..Len(widgets) |-> widgets[i].x + widgets[i].width])
      ELSE 0

max_bottom(widgets) ==
    IF widgets # <<>>
      THEN PyMax([i \in 1..Len(widgets) |-> widgets[i].y + widgets[i].height])
      ELSE 0

\* Faulty variant: no geometry statement for a layout without widgets.
HeaderNoGeometryWhenEmpty(widgets) ==
    << <<"import tkinter as tk">>,
       <<>>,
       <<"root = tk.Tk()">>,
       <<"root.title('Generated GUI')">> >>
      \o (IF widgets # <<>>
            THEN << <<"root.geometry('", ToString(max_right(widgets)), "x",
                      ToString(max_bottom(widgets)), "')">> >>
            ELSE <<>>)
      \o << <<>> >>

\* Faulty variant: the blank line closes the preamble, before the geometry.
HeaderBlankBeforeGeometry(widgets) ==
    << <<"import tkinter as tk">>,
       <<"root = tk.Tk()">>,
       <<"root.title('Generated GUI')">>,
       <<>>,
       <<"root.geometry('", ToString(max_right(widgets)), "x",
         ToString(max_bottom(widgets)), "')">>,
       <<>> >>

\* The lines appended before the widget loop.
Header(widgets) ==
    << <<"import tkinter as tk">>,
       <<>>,
       <<"root = tk.Tk()">>,
       <<"root.title('Generated GUI')">>,
       <<"root.geometry('", ToString(max_right(widgets)), "x",
         ToString(max_bottom(widgets)), "')">>,
       <<>> >>

\* sep.join(parts) on token sequences.
RECURSIVE Join(_, _)
Join(parts, sep) ==
    IF parts = <<>> THEN <<>>
    ELSE IF Len(parts) = 1 THEN parts[1]
    ELSE parts[1] \o <<sep>> \o Join(Tail(parts), sep)

\* Faulty variant: the text is tested for truth, so "" counts as absent.
OptionsTruthy(widget) ==
    IF widget.text # None /\ widget.text # Some(<<>>)
          /\ widget.type \in {"Button", "Label", "Entry"}
      THEN IF widget.type = "Entry"
             THEN << <<"root">> >>
             ELSE << <<"root">>, <<"text=">> \o Repr(widget.text[1]) >>
      ELSE << <<"root">> >>

\* The options list of one widget.
Options(widget) ==
    IF widget.text # None /\ widget.type \in {"Button", "Label", "Entry"}
      THEN IF widget.type = "Entry"
             THEN << <<"root">> >>
             ELSE << <<"root">>, <<"text=">> \o Repr(widget.text[1]) >>
      ELSE << <<"root">> >>

ConstructLine(widget) ==
    <<widget.id, " = ", "tk.", widget.type, "(">>
        \o Join(Options(widget), ", ") \o <<")">>

\* Faulty variant: the text is tested for truth, so "" is not inserted.
InsertLinesTruthy(widget) ==
    IF widget.type = "Entry" /\ widget.text # None /\ widget.text # Some(<<>>)
      THEN << <<widget.id, ".insert(0, ">> \o Repr(widget.text[1]) \o <<")">> >>
      ELSE <<>>

InsertLines(widget) ==
    IF widget.type = "Entry" /\ widget.text # None
      THEN << <<widget.id, ".insert(0, ">> \o Repr(widget.text[1]) \o <<")">> >>
      ELSE <<>>

\* Faulty variant: negative extents are clamped to 0.
PlaceLineClamped(widget) ==
    <<widget.id, ".place(x=", ToString(widget.x), ", y=", ToString(widget.y),
      ", width=", ToString(IF widget.width < 0 THEN 0 ELSE widget.width),
      ", height=", ToString(IF widget.height < 0 THEN 0 ELSE widget.height),
      ")">>

PlaceLine(widget) ==
    <<widget.id, ".place(x=", ToString(widget.x), ", y=", ToString(widget.y),
      ", width=", ToString(widget.width), ", height=", ToString(widget.height),
      ")">>

\* One iteration of the widget loop.
WidgetBlock(widget) ==
    <<ConstructLine(widget)>> \o InsertLines(widget)
        \o <<PlaceLine(widget), <<>> >>

\* Faulty variant: the blocks come out in reverse list order.
RECURSIVE WidgetLoopReversed(_)
WidgetLoopReversed(widgets) ==
    IF widgets = <<>> THEN <<>>
    ELSE WidgetLoopReversed(Tail(widgets)) \o WidgetBlock(Head(widgets))

\* The widget loop, in list order.
RECURSIVE WidgetLoop(_)
WidgetLoop(widgets) ==
    IF widgets = <<>> THEN <<>>
    ELSE WidgetBlock(Head(widgets)) \o WidgetLoop(Tail(widgets))

generate_tkinter_code(widgets) ==
    Join(Header(widgets) \o WidgetLoop(widgets) \o << <<"root.mainloop()">> >>,
         "\n")

-----------------------------------------------------------------------------
(* Request bodies explored. *)

Ids == {"w1", "w2"}
InputTypes == supported \cup {"Checkbox"}
Chars == {"n", "'", "\"", "\\", "\n"}
Texts == UNION {[1..k -> Chars] : k \in 0..MaxLen}

Widget(id, type, x, y, width, height, text) ==
    [id |-> id, type |-> type, x |-> x, y |-> y,
     width |-> width, height |-> height, text |-> text]

\* every type, with the text absent and empty, at the geometry of the module
\* docstring's example
KindWidgets ==
    {Widget(id, t, 10, 20, 100, 30, txt) :
        id \in Ids, t \in InputTypes, txt \in {None, Some(<<>>)}}

\* every type with a non-empty text
CaptionedWidgets ==
    {Widget(id, t, 10, 20, 100, 30, Some(<<"n", "'">>)) :
        id \in Ids, t \in InputTypes}

\* positions and extents that are negative, zero and positive
PlacedWidgets ==
    {Widget(id, "Frame", x, g[1], width, g[2], None) :
        id \in Ids, x \in {-4, 0}, width \in {-1, 3},
        g \in {<<-2, -3>>, <<0, 5>>}}

\* every text over Chars, for the three types that use text
TextWidgets ==
    {Widget("w1", t, 0, 0, 0, 0, Some(txt)) :
        t \in {"Button", "Label", "Entry"}, txt \in Texts}

ListsOf(S) == UNION {[1..k -> S] : k \in 0..MaxWidgets}

\* lists over the first two families, single widgets of the other two
Requests == ListsOf(KindWidgets) \cup ListsOf(PlacedWidgets)
                \cup [1..1 -> CaptionedWidgets \cup TextWidgets]

-----------------------------------------------------------------------------
(* The request as a state machine. *)

NoResponse == [kind |-> "none", code |-> <<>>, detail |-> <<>>]

Init ==
    /\ request \in Requests
    /\ pc = "parse"
    /\ layout = None
    /\ response = NoResponse
    /\ entered = FALSE

\* The body validates: FastAPI passes the Layout to the handler.
ParseOk ==
    /\ pc = "parse"
    /\ LayoutErrors(request) = <<>>
    /\ layout' = Some(request)
    /\ pc' = "handler"
    /\ UNCHANGED <<request, response, entered>>

\* The body does not validate: FastAPI answers with the validation errors and
\* the handler is not called.
ParseFail ==
    /\ pc = "parse"
    /\ LayoutErrors(request) # <<>>
    /\ response' = [kind |-> "validation_error", code |-> <<>>,
                    detail |-> LayoutErrors(request)]
    /\ pc' = "done"
    /\ UNCHANGED <<request, layout, entered>>

\* The handler: generate_tkinter_code raises nothing on a Layout, so the
\* except branch is never taken.
generate_code ==
    /\ pc = "handler"
    /\ entered' = TRUE
    /\ response' = [kind |-> "ok", code |-> generate_tkinter_code(layout[1]),
                    detail |-> <<>>]
    /\ pc' = "done"
    /\ UNCHANGED <<request, layout>>

Next == ParseOk \/ ParseFail \/ generate_code

Spec == Init /\ [][Next]_vars

TypeOK ==
    /\ pc \in {"parse", "handler", "done"}
    /\ entered \in BOOLEAN
    /\ response.kind \in {"none", "ok", "validation_error"}

-----------------------------------------------------------------------------
(* Reading a returned script: the lines of the text, the widget blocks,    *)
(* the statements, and the value a Python string literal denotes.          *)

\* The pieces of toks from position start on, cut at every sep at or after i.
RECURSIVE SplitFrom(_, _, _, _)
SplitFrom(toks, i, start, sep) ==
    IF i > Len(toks) THEN <<SubSeq(toks, start, Len(toks))>>
    ELSE IF toks[i] = sep
           THEN <<SubSeq(toks, start, i - 1)>> \o SplitFrom(toks, i + 1, i + 1, sep)
           ELSE SplitFrom(toks, i + 1, start, sep)

\* text.split("\n")
SplitLines(code) == SplitFrom(code, 1, 1, "\n")

\* Runs of non-blank lines, each closed by a blank line (a last run that no
\* blank line closes is kept as a run).
RECURSIVE BlocksAcc(_, _)
BlocksAcc(lines, cur) ==
    IF lines = <<>> THEN (IF cur = <<>> THEN <<>> ELSE <<cur>>)
    ELSE IF Head(lines) = <<>>
           THEN <<cur>> \o BlocksAcc(Tail(lines), <<>>)
           ELSE BlocksAcc(Tail(lines), Append(cur, Head(lines)))

Emitted == pc = "done" /\ response.kind = "ok"

OutLines == SplitLines(response.code)

\* what follows the six lines up to the blank line after the geometry
BodyLines == SubSeq(OutLines, 7, Len(OutLines))

OutBlocks == BlocksAcc(SubSeq(OutLines, 7, Len(OutLines) - 1), <<>>)

IsConstruct(L) ==
    /\ Len(L) >= 7
    /\ L[2] = " = "
    /\ L[3] = "tk."
    /\ L[5] = "("
    /\ L[Len(L)] = ")"

IsInsert(L) == Len(L) >= 5 /\ L[2] = ".insert(0, " /\ L[Len(L)] = ")"

IsPlace(L) ==
    /\ Len(L) = 10
    /\ L[2] = ".place(x="
    /\ L[4] = ", y="
    /\ L[6] = ", width="
    /\ L[8] = ", height="
    /\ L[10] = ")"

IsGeometry(L) == Len(L) = 5 /\ L[1] = "root.geometry('" /\ L[3] = "x" /\ L[5] = "')"

\* the tokens between the parentheses of a construction statement
Args(L) == SubSeq(L, 6, Len(L) - 1)

HasTextArg(L) == "text=" \in Range(Args(L))

\* the literal of a text= argument that follows the parent reference
TextArgLiteral(L) == SubSeq(Args(L), 4, Len(Args(L)))

\* the literal that is the second argument of an insert statement
InsertLiteral(L) == SubSeq(L, 3, Len(L) - 1)

\* The value of a Python string literal: Some(text), or None when the tokens
\* are not one well-formed single-line literal.
RECURSIVE DecodeFrom(_, _, _, _)
DecodeFrom(lit, i, q, acc) ==
    IF i > Len(lit) THEN None
    ELSE IF lit[i] = q THEN (IF i = Len(lit) THEN Some(acc) ELSE None)
    ELSE IF lit[i] = "\n" THEN None
    ELSE IF lit[i] = "\\"
      THEN IF i + 1 > Len(lit) THEN None
           ELSE IF lit[i + 1] = "n"
                  THEN DecodeFrom(lit, i + 2, q, Append(acc, "\n"))
           ELSE IF lit[i + 1] \in {"\\", "'", "\""}
                  THEN DecodeFrom(lit, i + 2, q, Append(acc, lit[i + 1]))
           ELSE IF lit[i + 1] = "\n"
                  THEN DecodeFrom(lit, i + 2, q, acc)
           ELSE DecodeFrom(lit, i + 2, q, acc \o <<"\\", lit[i + 1]>>)
    ELSE DecodeFrom(lit, i + 1, q, Append(acc, lit[i]))

DecodeLiteral(lit) ==
    IF Len(lit) >= 2 /\ lit[1] \in {"'", "\""}
      THEN DecodeFrom(lit, 2, lit[1], <<>>)
      ELSE None

\* the five kinds of the data model, as the specification lists them
Kinds == {"Button", "Label", "Entry", "Frame", "Menu"}

BadAt(i) == request[i].type \notin Kinds

-----------------------------------------------------------------------------
(* C1: when some widget of the request, at any position, has a type outside *)
(* the five kinds, the request ends in a validation failure that names each *)
(* offending value; generate_tkinter_code is never entered and no line of   *)
(* code is ever produced.                                                   *)
C1_UnsupportedTypeFailsBeforeEmission ==
    (\E i \in 1..Len(request) : BadAt(i)) =>
        /\ ~entered
        /\ layout = None
        /\ response.code = <<>>
        /\ pc \in {"parse", "done"}
        /\ pc = "parse" =>
              /\ ENABLED ParseFail
              /\ ~ENABLED ParseOk
              /\ ~ENABLED generate_code
        /\ pc = "done" =>
              /\ response.kind = "validation_error"
              /\ \A i \in 1..Len(request) : BadAt(i) =>
                    \E k \in 1..Len(response.detail) :
                        /\ response.detail[k].loc = i
                        /\ response.detail[k].msg =
                              <<"Unsupported widget type: ", request[i].type>>

\* a rejected request whose bad widget comes second, after a valid one
C1_Witness ==
    /\ pc = "done"
    /\ response.kind = "validation_error"
    /\ Len(request) = 2
    /\ request[1].type = "Button"
    /\ request[2].type = "Checkbox"

-----------------------------------------------------------------------------
(* C2: in an emitted script the construction statement of every widget has  *)
(* root as its first argument, and has a text= argument exactly when the    *)
(* type is Button or Label and the text is present (the empty string is     *)
(* present); the argument's literal denotes the widget's own text.  Every   *)
(* other widget gets the single argument root.                              *)
C2_ConstructorArguments ==
    Emitted =>
      LET blocks == OutBlocks
      IN  /\ Len(blocks) = Len(request)
          /\ \A i \in 1..Len(request) :
              LET w == request[i]
                  L == blocks[i][1]
              IN  /\ Len(blocks[i]) >= 1
                  /\ IsConstruct(L)
                  /\ L[1] = w.id
                  /\ L[4] = w.type
                  /\ Args(L)[1] = "root"
                  /\ HasTextArg(L) <=>
                        (w.type \in {"Button", "Label"} /\ w.text # None)
                  /\ HasTextArg(L) =>
                        /\ SubSeq(Args(L), 1, 3) = <<"root", ", ", "text=">>
                        /\ DecodeLiteral(TextArgLiteral(L)) = w.text
                  /\ ~HasTextArg(L) => Args(L) = <<"root">>

\* a Label with the empty text next to a Frame whose text is present
C2_Witness ==
    /\ Emitted
    /\ Len(request) = 2
    /\ request[1].type = "Label" /\ request[1].text = Some(<<>>)
    /\ request[2].type = "Frame" /\ request[2].text = Some(<<>>)

-----------------------------------------------------------------------------
(* C3: for an Entry whose text is present (the empty string included) the   *)
(* construction statement has no text argument and is followed at once by   *)
(* the insert statement for the same id and text, itself followed at once   *)
(* by the placement statement; no other widget gets an insert statement.    *)
C3_EntryInsert ==
    Emitted =>
      LET blocks == OutBlocks
      IN  /\ Len(blocks) = Len(request)
          /\ \A i \in 1..Len(request) :
              LET w == request[i]
                  b == blocks[i]
              IN  IF w.type = "Entry" /\ w.text # None
                    THEN /\ Len(b) = 3
                         /\ IsConstruct(b[1])
                         /\ b[1][1] = w.id
                         /\ ~HasTextArg(b[1])
                         /\ IsInsert(b[2])
                         /\ b[2][1] = w.id
                         /\ DecodeLiteral(InsertLiteral(b[2])) = w.text
                         /\ IsPlace(b[3])
                         /\ b[3][1] = w.id
                    ELSE \A k \in 1..Len(b) : ~IsInsert(b[k])

\* an Entry with the empty text after a Button whose text is present
C3_Witness ==
    /\ Emitted
    /\ Len(request) = 2
    /\ request[1].type = "Button" /\ request[1].text # None
    /\ request[2].type = "Entry" /\ request[2].text = Some(<<>>)

-----------------------------------------------------------------------------
(* C4: every widget gets exactly one placement statement, whose x, y, width *)
(* and height are the widget's own values unchanged, zero and negative      *)
(* values included.                                                         *)
C4_PlacementVerbatim ==
    Emitted =>
      LET lines == OutLines
          blocks == OutBlocks
      IN  /\ Len(blocks) = Len(request)
          /\ Cardinality({k \in 1..Len(lines) : IsPlace(lines[k])})
                = Len(request)
          /\ \A i \in 1..Len(request) :
              LET w == request[i]
                  b == blocks[i]
                  P == {k \in 1..Len(b) : IsPlace(b[k])}
              IN  /\ Cardinality(P) = 1
                  /\ \A k \in P :
                        b[k] = <<w.id, ".place(x=", ToString(w.x),
                                 ", y=", ToString(w.y),
                                 ", width=", ToString(w.width),
                                 ", height=", ToString(w.height), ")">>

\* two widgets of different geometry, the second with negative position and
\* extents
C4_Witness ==
    /\ Emitted
    /\ Len(request) = 2
    /\ request[1].x = 0 /\ request[1].y = 0
    /\ request[1].width = 3 /\ request[1].height = 5
    /\ request[2].x < 0 /\ request[2].y < 0
    /\ request[2].width < 0 /\ request[2].height < 0

-----------------------------------------------------------------------------
(* C5: for a non-empty layout the single geometry statement carries the     *)
(* maximum of x + width and the maximum of y + height over all widgets,     *)
(* each taken on its own and negative when every sum is negative; every     *)
(* permutation of the widget list yields the same two values.               *)
Maximum(S) == CHOOSE m \in S : \A k \in S : k <= m

ListOrders(n) ==
    {p \in [1..n -> 1..n] : \A i, j \in 1..n : p[i] = p[j] => i = j}

C5_GeometryIsTrueMaximum ==
    (Emitted /\ request # <<>>) =>
      LET lines == OutLines
          n == Len(request)
          right == Maximum({request[i].x + request[i].width : i \in 1..n})
          bottom == Maximum({request[i].y + request[i].height : i \in 1..n})
      IN  /\ Cardinality({k \in 1..Len(lines) : IsGeometry(lines[k])}) = 1
          /\ Len(lines) >= 5
          /\ lines[5] = <<"root.geometry('", ToString(right), "x",
                          ToString(bottom), "')">>
          /\ \A p \in ListOrders(n) :
                LET reordered == [i \in 1..n |-> request[p[i]]]
                IN  /\ max_right(reordered) = right
                    /\ max_bottom(reordered) = bottom

\* the right edge comes from the first widget only and is negative, the
\* bottom edge comes from the second widget only
C5_Witness ==
    /\ Emitted
    /\ Len(request) = 2
    /\ request[1].x + request[1].width = -1
    /\ request[2].x + request[2].width = -5
    /\ request[1].y + request[1].height = -5
    /\ request[2].y + request[2].height = 5

-----------------------------------------------------------------------------
(* C6: the request with no widget succeeds; its script has the geometry     *)
(* 0x0 and no construction, insert or placement statement: it is made of    *)
(* the import, root and title statements, the geometry statement, two blank *)
(* lines (that of the preamble and one more) and the final mainloop call.   *)
CountOf(lines, L) == Cardinality({k \in 1..Len(lines) : lines[k] = L})

C6_EmptyLayout ==
    (request = <<>> /\ pc = "done") =>
      LET lines == OutLines
      IN  /\ response.kind = "ok"
          /\ Len(lines) = 7
          /\ CountOf(lines, <<"import tkinter as tk">>) = 1
          /\ CountOf(lines, <<"root = tk.Tk()">>) = 1
          /\ CountOf(lines, <<"root.title('Generated GUI')">>) = 1
          /\ CountOf(lines, <<"root.geometry('", "0", "x", "0", "')">>) = 1
          /\ CountOf(lines, <<>>) = 2
          /\ lines[7] = <<"root.mainloop()">>
          /\ \A k \in 1..Len(lines) :
                ~IsConstruct(lines[k]) /\ ~IsInsert(lines[k]) /\ ~IsPlace(lines[k])

C6_Witness == request = <<>> /\ pc = "done" /\ entered

-----------------------------------------------------------------------------
(* C7: the literal rendered for a text, as a text= argument and as the      *)
(* second argument of insert, denotes exactly that text and holds no raw    *)
(* newline, so that the statement stays on one line of the script.          *)
C7_LiteralRoundTrip ==
    Emitted =>
      LET blocks == OutBlocks
      IN  /\ Len(blocks) = Len(request)
          /\ \A i \in 1..Len(request) :
              LET w == request[i]
                  b == blocks[i]
              IN  (w.text # None /\ w.type \in {"Button", "Label", "Entry"}) =>
                    /\ "\n" \notin Range(Repr(w.text[1]))
                    /\ DecodeLiteral(Repr(w.text[1])) = w.text
                    /\ w.type \in {"Button", "Label"} =>
                          /\ Len(b) = 2
                          /\ IsConstruct(b[1])
                          /\ TextArgLiteral(b[1]) = Repr(w.text[1])
                          /\ DecodeLiteral(TextArgLiteral(b[1])) = w.text
                    /\ w.type = "Entry" =>
                          /\ Len(b) = 3
                          /\ IsInsert(b[2])
                          /\ InsertLiteral(b[2]) = Repr(w.text[1])
                          /\ DecodeLiteral(InsertLiteral(b[2])) = w.text

\* an Entry whose text holds a backslash, the letter n and a newline
C7_Witness ==
    /\ Emitted
    /\ Len(request) = 1
    /\ request[1].type = "Entry"
    /\ request[1].text = Some(<<"\\", "n", "\n">>)

-----------------------------------------------------------------------------
(* C8: a request in which two widgets share an id ends in a validation      *)
(* failure, so that the ids bound by the construction statements of an      *)
(* emitted script are pairwise distinct.                                    *)
HasDuplicateId ==
    \E i, j \in 1..Len(request) : i # j /\ request[i].id = request[j].id

C8_DuplicateIdRejected ==
    pc = "done" =>
        /\ HasDuplicateId => response.kind = "validation_error"
        /\ response.kind = "ok" =>
              LET lines == OutLines
              IN  \A k, m \in 1..Len(lines) :
                     (IsConstruct(lines[k]) /\ IsConstruct(lines[m]) /\ k # m)
                        => lines[k][1] # lines[m][1]

-----------------------------------------------------------------------------
(* C9: after the geometry section the script is exactly one block per       *)
(* widget, in list order, followed by the single line root.mainloop(); a    *)
(* block is the construction statement, the insert statement when the       *)
(* widget is an Entry with text present, the placement statement and a      *)
(* blank line, all for that widget.                                         *)
LineShape(L) ==
    IF L = <<>> THEN <<"blank">>
    ELSE IF IsConstruct(L) THEN <<"construct", L[1], L[4]>>
    ELSE IF IsInsert(L) THEN <<"insert", L[1]>>
    ELSE IF IsPlace(L) THEN <<"place", L[1], L[3], L[5], L[7], L[9]>>
    ELSE <<"other">>

BlockShape(w) ==
    << <<"construct", w.id, w.type>> >>
      \o (IF w.type = "Entry" /\ w.text # None
            THEN << <<"insert", w.id>> >> ELSE <<>>)
      \o << <<"place", w.id, ToString(w.x), ToString(w.y),
              ToString(w.width), ToString(w.height)>>,
            <<"blank">> >>

C9_BlocksInInputOrder ==
    Emitted =>
      LET body == BodyLines
          n == Len(request)
      IN  /\ Len(body) >= 1
          /\ body[Len(body)] = <<"root.mainloop()">>
          /\ [k \in 1..(Len(body) - 1) |-> LineShape(body[k])]
                = Flatten([i \in 1..n |-> BlockShape(request[i])])

\* an Entry whose text is present followed by a Label under another id
C9_Witness ==
    /\ Emitted
    /\ Len(request) = 2
    /\ request[1].type = "Entry" /\ request[1].text # None
    /\ request[2].type = "Label"
    /\ request[1].id # request[2].id

-----------------------------------------------------------------------------
(* C10 as stated: the script begins with the import statement, the creation *)
(* of the root, the title statement and a blank line, and the geometry      *)
(* statement follows that blank line.                                       *)
C10_PreambleThenBlankThenGeometry ==
    Emitted =>
      LET lines == OutLines
      IN  /\ Len(lines) >= 5
          /\ lines[1] = <<"import tkinter as tk">>
          /\ lines[2] = <<"root = tk.Tk()">>
          /\ lines[3] = <<"root.title('Generated GUI')">>
          /\ lines[4] = <<>>
          /\ IsGeometry(lines[5])

(* C10 amended: the script begins with the import statement, a blank line,  *)
(* the creation of the root, the title statement, the single geometry       *)
(* statement and a blank line, in this order; the first widget block (or    *)
(* the mainloop call when there is no widget) follows that second blank     *)
(* line.                                                                    *)
C10_PreambleOrder ==
    Emitted =>
      LET lines == OutLines
      IN  /\ Len(lines) >= 7
          /\ lines[1] = <<"import tkinter as tk">>
          /\ lines[2] = <<>>
          /\ lines[3] = <<"root = tk.Tk()">>
          /\ lines[4] = <<"root.title('Generated GUI')">>
          /\ IsGeometry(lines[5])
          /\ lines[6] = <<>>
          /\ Cardinality({k \in 1..Len(lines) : IsGeometry(lines[k])}) = 1
          /\ IF request = <<>>
               THEN lines[7] = <<"root.mainloop()">>
               ELSE IsConstruct(lines[7]) /\ lines[7][1] = request[1].id

C10_Witness == Emitted /\ Len(request) = 2

=============================================================================


